---- MODULE Spec2Model ----
(***************************************************************************)
(* Lloyd's algorithm (tess/lloyd.pyx, function lloyd): repeated rounds of  *)
(* nearest-node assignment, weighted-centroid recomputation, displacement  *)
(* measurement and a stop decision.                                        *)
(*                                                                         *)
(* Coordinates are exact rationals.  A node position is <<nx, ny, d>>,     *)
(* standing for (nx/d, ny/d), kept in lowest terms with d > 0; data points *)
(* are integer pairs <<x, y>>.  Node and point indices are 0-based as in   *)
(* the source; the sequence holding them is read at index + 1.             *)
(*                                                                         *)
(* The module is compiled with Cython's default directives (the file sets  *)
(* none): a division of C doubles by zero raises ZeroDivisionError and an  *)
(* out-of-range memoryview index raises IndexError.                        *)
(***************************************************************************)
EXTENDS Integers, Sequences, FiniteSets, TLC

\* ---------------------------------------------------------------- bounds
MaxPoints == 3
MaxNodes == 2
MaxIters == 1
MaxWeight == 1

\* Input domains.  Data points and seed nodes are drawn from three positions
\* of the plane that are not collinear, one of them the origin (the position
\* lines 73-74 give to an empty node); weights are small naturals.
Grid == { <<0, 0>>, <<1, 1>>, <<3, 1>> }
Weights == 0..MaxWeight
TieRules == {"lowest", "highest"}

VARIABLES
  xy,               \* (n_points, 2) data point coordinates
  w,                \* data point weights
  node_xy,          \* (n_nodes, 2) node coordinates; accumulator inside a round
  max_iters,
  n_points, n_nodes,
  n_iters,
  orig_node_xy,
  idx,              \* point -> node index (0-based)
  node_population,
  weight_sum,
  i,                \* index of the node loop at lines 66-74 (0-based)
  delta,            \* <<num, den>> in lowest terms
  pc,               \* "assign", "accumulate", "centroid", "delta", "judge", "done", "error"
  converged,        \* third component of the returned tuple (meaningful at "done")
  err,              \* the exception raised (meaningful at "error")
  tie,              \* the k-d tree's rule among equidistant nodes
  rounds,           \* history: rounds started in the current call
  call,             \* history: 1 = first call, 2 = call re-run on the returned nodes
  init_nodes        \* history: the node_xy argument of the current call

vars == << xy, w, node_xy, max_iters, n_points, n_nodes, n_iters, orig_node_xy,
           idx, node_population, weight_sum, i, delta, pc, converged, err, tie,
           rounds, call, init_nodes >>

\* ------------------------------------------------------------ arithmetic
Abs(a) == IF a < 0 THEN -a ELSE a

RECURSIVE Gcd(_, _)
Gcd(a, b) == IF b = 0 THEN Abs(a) ELSE Gcd(b, a % b)

Lcm(a, b) == (a * b) \div Gcd(a, b)

\* (nx/d, ny/d) in lowest terms with a positive denominator.
NormPos(nx, ny, d) ==
  LET g == Gcd(Gcd(Abs(nx), Abs(ny)), Abs(d))
      s == IF d < 0 THEN -1 ELSE 1
  IN  << (s * nx) \div g, (s * ny) \div g, (s * d) \div g >>

NormRat(n, d) ==
  LET g == Gcd(Abs(n), Abs(d)) IN << n \div g, d \div g >>

Zeros(n) == [k \in 1..n |-> 0]

\* Squared Euclidean distance from data point p to node q, as <<num, den>>.
Dist2(p, q) ==
  << (p[1] * q[3] - q[1]) * (p[1] * q[3] - q[1])
     + (p[2] * q[3] - q[2]) * (p[2] * q[3] - q[2]),
     q[3] * q[3] >>

RatLess(a, b) == a[1] * b[2] < b[1] * a[2]

\* ------------------------------------------------- nearest-node query
\* The 0-based indices of the nodes at minimal distance from p.
NearestSet(p, nodes) ==
  { k \in 0..(Len(nodes) - 1) :
      \A m \in 0..(Len(nodes) - 1) :
        ~RatLess(Dist2(p, nodes[m + 1]), Dist2(p, nodes[k + 1])) }

SetMin(S) == CHOOSE a \in S : \A b \in S : a <= b
SetMax(S) == CHOOSE a \in S : \A b \in S : a >= b

\* Nearest with the node index counted from 1.
NearestOneBased(p, nodes, rule) ==
  IF rule = "lowest" THEN SetMin(NearestSet(p, nodes)) + 1
                     ELSE SetMax(NearestSet(p, nodes)) + 1

\* tree.query(p, k=1)[1] for a tree built on nodes.
Nearest(p, nodes, rule) ==
  IF rule = "lowest" THEN SetMin(NearestSet(p, nodes))
                     ELSE SetMax(NearestSet(p, nodes))

\* tree.query(xy, k=1)[1]: one node index per data point.
Query(pts, nodes, rule) ==
  [k \in 1..Len(pts) |-> Nearest(pts[k], nodes, rule)]

\* ------------------------------------------- weighted-centroid accumulators
\* The 1-based positions of the data points that ix assigns to node k.
Members(ix, k) == { j \in 1..Len(ix) : ix[j] = k }

RECURSIVE SumOver(_, _)
SumOver(f, S) ==
  IF S = {} THEN 0
  ELSE LET j == CHOOSE a \in S : TRUE IN f[j] + SumOver(f, S \ {j})

\* node_population after the loop at lines 61-65.
Population(ix, n) == [k \in 1..n |-> Cardinality(Members(ix, k - 1))]

\* WeightSums that counts the points instead of adding their weights.
WeightSumsCount(ix, ws, n) == [k \in 1..n |-> Cardinality(Members(ix, k - 1))]

\* weight_sum after the loop at lines 61-65.
WeightSums(ix, ws, n) == [k \in 1..n |-> SumOver(ws, Members(ix, k - 1))]

\* CoordSums without the weights: the sums of x and of y.
CoordSumsUnweighted(ix, pts, ws, n) ==
  [k \in 1..n |->
     << SumOver([j \in 1..Len(ix) |-> pts[j][1]], Members(ix, k - 1)),
        SumOver([j \in 1..Len(ix) |-> pts[j][2]], Members(ix, k - 1)),
        1 >>]

\* node_xy after the loop at lines 61-65: the sums of w * x and of w * y.
CoordSums(ix, pts, ws, n) ==
  [k \in 1..n |->
     << SumOver([j \in 1..Len(ix) |-> ws[j] * pts[j][1]], Members(ix, k - 1)),
        SumOver([j \in 1..Len(ix) |-> ws[j] * pts[j][2]], Members(ix, k - 1)),
        1 >>]

\* Lines 69-70: both accumulated coordinates divided by the weight sum.
Centroid(acc, wsum) == NormPos(acc[1], acc[2], wsum * acc[3])

\* Lines 73-74: the position given to a node without points.
EmptyNodePos == <<0, 0, 1>>

\* HasPoints with >= for >.
HasPointsOrNone(pop, wsum) == pop >= 0

\* Line 68: the test that chooses between the division and the empty branch.
HasPoints(pop, wsum) == pop > 0

\* ---------------------------------------------------------- displacement
RECURSIVE LcmDen(_, _)
LcmDen(nodes, k) ==
  IF k = 0 THEN 1 ELSE Lcm(nodes[k][3], LcmDen(nodes, k - 1))

\* Lines 77-81: sum over the nodes of dx * dx + dy * dy, as <<num, den>>.
Displacement(orig, new) ==
  LET n == Len(new)
      D == Lcm(LcmDen(orig, n), LcmDen(new, n))
      dx(k) == orig[k][1] * (D \div orig[k][3]) - new[k][1] * (D \div new[k][3])
      dy(k) == orig[k][2] * (D \div orig[k][3]) - new[k][2] * (D \div new[k][3])
      sq == [k \in 1..n |-> dx(k) * dx(k) + dy(k) * dy(k)]
  IN  NormRat(SumOver(sq, 1..n), D * D)

\* NoMotion that is not tested in the first iteration.
NoMotionAfterFirst(d) == d[1] = 0 /\ n_iters > 0

\* Line 85: delta == 0.
NoMotion(d) == d[1] = 0

\* Line 87: n_iters > max_iters.
BudgetSpent(n, m) == n > m

\* ------------------------------------------------------------------ Init
SortedPairs(f, n) ==
  \A k \in 1..(n - 1) :
     \/ f[k][1][1] < f[k + 1][1][1]
     \/ /\ f[k][1][1] = f[k + 1][1][1]
        /\ f[k][2] <= f[k + 1][2]

\* The weighted point sets of n points, listed in ascending order (the
\* rounds do not depend on the order of the data points).
PointSets(n) == { f \in [1..n -> Grid \X Weights] : SortedPairs(f, n) }

Locals(np, nn) ==
  /\ n_points = np
  /\ n_nodes = nn
  /\ n_iters = 0
  /\ orig_node_xy = << >>
  /\ idx = Zeros(np)
  /\ node_population = Zeros(nn)
  /\ weight_sum = << >>
  /\ i = 0
  /\ delta = <<0, 1>>
  /\ pc = "assign"
  /\ converged = FALSE
  /\ err = "none"
  /\ rounds = 0
  /\ call = 1
  /\ init_nodes = node_xy

\* Entry of lloyd (lines 36-45) with arguments that meet the preconditions:
\* at least one point, at least one node, one weight per point.
Init ==
  /\ \E np \in 1..MaxPoints, nn \in 1..MaxNodes :
       /\ \E f \in PointSets(np) :
            /\ xy = [k \in 1..np |-> f[k][1]]
            /\ w = [k \in 1..np |-> f[k][2]]
       /\ node_xy \in [1..nn -> { <<g[1], g[2], 1>> : g \in Grid }]
       /\ Locals(np, nn)
  /\ max_iters \in 0..MaxIters
  /\ tie \in TieRules

\* Entry of lloyd with any arguments: possibly no points, no nodes, or a
\* weights array shorter or longer than the point array.
InitAny ==
  /\ \E np \in 0..MaxPoints, nn \in 0..MaxNodes, nw \in 0..(MaxPoints + 1) :
       /\ xy \in [1..np -> Grid]
       /\ w \in [1..nw -> Weights]
       /\ node_xy \in [1..nn -> { <<g[1], g[2], 1>> : g \in Grid }]
       /\ Locals(np, nn)
  /\ max_iters \in 0..MaxIters
  /\ tie \in TieRules

\* --------------------------------------------------------------- actions
Raise(e) ==
  /\ pc' = "error"
  /\ err' = e
  /\ UNCHANGED << xy, w, node_xy, max_iters, n_points, n_nodes, n_iters,
                  orig_node_xy, idx, node_population, weight_sum, i, delta,
                  converged, tie, rounds, call, init_nodes >>

\* Lines 49-55: snapshot the nodes, build the tree, query it with all points.
\* A tree built on no nodes either is rejected by the library or answers
\* every query with the missing-neighbour index n_nodes.
Assign ==
  /\ pc = "assign"
  /\ IF n_nodes = 0
       THEN \/ Raise("ValueError")
            \/ /\ orig_node_xy' = node_xy
               /\ idx' = [k \in 1..n_points |-> n_nodes]
               /\ rounds' = rounds + 1
               /\ pc' = "accumulate"
               /\ UNCHANGED << xy, w, node_xy, max_iters, n_points, n_nodes,
                               n_iters, node_population, weight_sum, i, delta,
                               converged, err, tie, call, init_nodes >>
       ELSE /\ orig_node_xy' = node_xy
            /\ idx' = Query(xy, node_xy, tie)
            /\ rounds' = rounds + 1
            /\ pc' = "accumulate"
            /\ UNCHANGED << xy, w, node_xy, max_iters, n_points, n_nodes,
                            n_iters, node_population, weight_sum, i, delta,
                            converged, err, tie, call, init_nodes >>

\* Lines 58-65: fresh accumulators, then one pass over the data points.
\* node_population[idx[i]] and w[i] are bounds-checked reads.
Accumulate ==
  /\ pc = "accumulate"
  /\ IF \E k \in 1..n_points : idx[k] >= n_nodes \/ k > Len(w)
       THEN Raise("IndexError")
       ELSE /\ node_population' = Population(idx, n_nodes)
            /\ weight_sum' = WeightSums(idx, w, n_nodes)
            /\ node_xy' = CoordSums(idx, xy, w, n_nodes)
            /\ i' = 0
            /\ pc' = IF n_nodes = 0 THEN "delta" ELSE "centroid"
            /\ UNCHANGED << xy, w, max_iters, n_points, n_nodes, n_iters,
                            orig_node_xy, idx, delta, converged, err, tie,
                            rounds, call, init_nodes >>

\* Lines 66-74, one iteration of the node loop: node i becomes the weighted
\* centroid of its points, or the origin when it has none.
CentroidStep ==
  /\ pc = "centroid"
  /\ IF HasPoints(node_population[i + 1], weight_sum[i + 1])
       THEN IF weight_sum[i + 1] = 0
              THEN Raise("ZeroDivisionError")
              ELSE /\ node_xy' = [node_xy EXCEPT
                                    ![i + 1] = Centroid(@, weight_sum[i + 1])]
                   /\ i' = i + 1
                   /\ pc' = IF i + 1 = n_nodes THEN "delta" ELSE "centroid"
                   /\ UNCHANGED << xy, w, max_iters, n_points, n_nodes, n_iters,
                                   orig_node_xy, idx, node_population,
                                   weight_sum, delta, converged, err, tie,
                                   rounds, call, init_nodes >>
       ELSE /\ node_xy' = [node_xy EXCEPT ![i + 1] = EmptyNodePos]
            /\ i' = i + 1
            /\ pc' = IF i + 1 = n_nodes THEN "delta" ELSE "centroid"
            /\ UNCHANGED << xy, w, max_iters, n_points, n_nodes, n_iters,
                            orig_node_xy, idx, node_population, weight_sum,
                            delta, converged, err, tie, rounds, call,
                            init_nodes >>

\* Lines 77-81: how far the nodes moved in this round.
Displace ==
  /\ pc = "delta"
  /\ delta' = Displacement(orig_node_xy, node_xy)
  /\ pc' = "judge"
  /\ UNCHANGED << xy, w, node_xy, max_iters, n_points, n_nodes, n_iters,
                  orig_node_xy, idx, node_population, weight_sum, i, converged,
                  err, tie, rounds, call, init_nodes >>

\* Judge with the budget test ahead of the zero-displacement test.
JudgeBudgetFirst ==
  /\ pc = "judge"
  /\ IF BudgetSpent(n_iters, max_iters)
       THEN /\ pc' = "done"
            /\ converged' = FALSE
            /\ UNCHANGED n_iters
       ELSE IF NoMotion(delta)
              THEN /\ pc' = "done"
                   /\ converged' = TRUE
                   /\ UNCHANGED n_iters
              ELSE /\ pc' = "assign"
                   /\ n_iters' = n_iters + 1
                   /\ UNCHANGED converged
  /\ UNCHANGED << xy, w, node_xy, max_iters, n_points, n_nodes, orig_node_xy,
                  idx, node_population, weight_sum, i, delta, err, tie, rounds,
                  call, init_nodes >>

\* Lines 85-90: return converged, return unconverged, or go round again.
Judge ==
  /\ pc = "judge"
  /\ IF NoMotion(delta)
       THEN /\ pc' = "done"
            /\ converged' = TRUE
            /\ UNCHANGED n_iters
       ELSE IF BudgetSpent(n_iters, max_iters)
              THEN /\ pc' = "done"
                   /\ converged' = FALSE
                   /\ UNCHANGED n_iters
              ELSE /\ pc' = "assign"
                   /\ n_iters' = n_iters + 1
                   /\ UNCHANGED converged
  /\ UNCHANGED << xy, w, node_xy, max_iters, n_points, n_nodes, orig_node_xy,
                  idx, node_population, weight_sum, i, delta, err, tie, rounds,
                  call, init_nodes >>

\* The caller runs lloyd again on the nodes a converged call returned, with
\* the same points, weights and budget (entry of lloyd, lines 36-45).
Rerun ==
  /\ pc = "done"
  /\ converged
  /\ call = 1
  /\ init_nodes' = node_xy
  /\ call' = 2
  /\ n_iters' = 0
  /\ idx' = Zeros(n_points)
  /\ node_population' = Zeros(n_nodes)
  /\ rounds' = 0
  /\ converged' = FALSE
  /\ pc' = "assign"
  /\ UNCHANGED << xy, w, node_xy, max_iters, n_points, n_nodes, orig_node_xy,
                  weight_sum, i, delta, err, tie >>

Next ==
  \/ Assign
  \/ Accumulate
  \/ CentroidStep
  \/ Displace
  \/ Judge
  \/ Rerun

Spec == Init /\ [][Next]_vars

SpecAny == InitAny /\ [][Next]_vars

\* ---------------------------------------------------------------- claims
\* Quantities recomputed from the arguments and the returned values.
NodeWeight(k) == SumOver(w, Members(idx, k))
NodeSumX(k) == SumOver([j \in 1..n_points |-> w[j] * xy[j][1]], Members(idx, k))
NodeSumY(k) == SumOver([j \in 1..n_points |-> w[j] * xy[j][2]], Members(idx, k))

\* Node k (0-based) sits at the weighted centroid of the points idx gives it.
AtCentroid(k) ==
  /\ node_xy[k + 1][1] * NodeWeight(k) = NodeSumX(k) * node_xy[k + 1][3]
  /\ node_xy[k + 1][2] * NodeWeight(k) = NodeSumY(k) * node_xy[k + 1][3]

TotalWeight == SumOver(w, 1..n_points)

\* The weighted centroid of all the data points, when TotalWeight > 0.
GlobalCentroid ==
  NormPos(SumOver([j \in 1..n_points |-> w[j] * xy[j][1]], 1..n_points),
          SumOver([j \in 1..n_points |-> w[j] * xy[j][2]], 1..n_points),
          TotalWeight)

\* No node moved in the round that just ended.
Unmoved == \A k \in 1..n_nodes : node_xy[k] = orig_node_xy[k]

\* Node k (0-based) has been through the loop at lines 66-74 in this round.
Recomputed(k) ==
  \/ pc = "centroid" /\ k < i
  \/ pc \in {"delta", "judge", "done"}

\* C1: a call executes at most max_iters + 1 rounds, and a call that returns
\* converged = false has executed exactly max_iters + 1 rounds.
C1_BudgetRespected ==
  /\ rounds <= max_iters + 1
  /\ (pc = "done" /\ ~converged) => rounds = max_iters + 1

\* C2: after every assignment, and so on every return, idx has one entry per
\* point, each a node index in [0, n_nodes); the node array and the point
\* array keep their sizes through all rounds.
C2_AssignmentTotality ==
  pc # "error" =>
    /\ Len(idx) = n_points
    /\ \A k \in 1..n_points : idx[k] \in 0..(n_nodes - 1)
    /\ Len(node_xy) = n_nodes
    /\ Len(init_nodes) = n_nodes
    /\ Len(xy) = n_points

C2_Witness ==
  /\ pc = "done"
  /\ ~converged
  /\ n_points = MaxPoints
  /\ n_nodes = 2
  /\ \A k \in 0..(n_nodes - 1) : Members(idx, k) # {}

\* C3: a node with points but weight sum 0 is placed at (0, 0); the round
\* raises no division by zero and the run is not aborted.
C3_ZeroWeightSentinel ==
  /\ ~(pc = "error" /\ err = "ZeroDivisionError")
  /\ \A k \in 0..(n_nodes - 1) :
       (Recomputed(k) /\ node_population[k + 1] > 0 /\ weight_sum[k + 1] = 0)
          => node_xy[k + 1] = <<0, 0, 1>>

\* C4 as stated: with one node and positive total weight the call returns
\* converged after exactly 1 round, the node at the weighted centroid of all
\* points.
C4_SingleNodeOneRound ==
  (pc = "done" /\ n_nodes = 1 /\ TotalWeight > 0) =>
    /\ converged
    /\ rounds = 1
    /\ node_xy[1] = GlobalCentroid

\* C4 amended: with one node and positive total weight the call raises
\* nothing and returns converged with the node at the weighted centroid of
\* all points, after 1 round when the initial node already is that centroid
\* and after exactly 2 rounds otherwise.
C4_SingleNodeTwoRounds ==
  (n_nodes = 1 /\ TotalWeight > 0) =>
    /\ pc # "error"
    /\ rounds <= 2
    /\ pc = "done" =>
         /\ converged
         /\ node_xy[1] = GlobalCentroid
         /\ rounds = (IF init_nodes[1] = GlobalCentroid THEN 1 ELSE 2)

C4_Witness ==
  /\ pc = "done"
  /\ call = 1
  /\ n_nodes = 1
  /\ xy = << <<0, 0>>, <<1, 1>> >>
  /\ w = <<1, 1>>
  /\ init_nodes = << <<0, 0, 1>> >>
  /\ node_xy = << <<1, 1, 2>> >>
  /\ converged
  /\ rounds = 2

\* C5: a call re-run on the nodes a converged call returned, with the same
\* points and weights, returns converged after its first round, with
\* displacement 0 in that round and the nodes unchanged.
C5_Idempotence ==
  call = 2 =>
    /\ pc # "error"
    /\ rounds <= 1
    /\ pc = "done" =>
         /\ converged
         /\ rounds = 1
         /\ delta = <<0, 1>>
         /\ node_xy = init_nodes

C5_Witness ==
  /\ call = 2
  /\ pc = "done"
  /\ n_nodes = 2
  /\ \E k \in 1..n_points : Cardinality(NearestSet(xy[k], node_xy)) = 2
  /\ \E k \in 1..n_nodes : node_population[k] = 0

\* C6: on a converged return, every node whose assigned points have nonzero
\* total weight sits at the weighted centroid of exactly those points.
C6_CentroidCorrectness ==
  (pc = "done" /\ converged) =>
    \A k \in 0..(n_nodes - 1) : NodeWeight(k) # 0 => AtCentroid(k)

C6_Witness ==
  /\ pc = "done"
  /\ converged
  /\ call = 1
  /\ n_nodes = 2
  /\ \E k \in 0..(n_nodes - 1) :
       /\ Cardinality(Members(idx, k)) = 2
       /\ NodeWeight(k) > 0
       /\ node_xy[k + 1][3] > 1

\* C7: the loop iteration for a node without points puts it at (0, 0),
\* raises nothing, goes on to the next node or to the displacement step, and
\* leaves the number of nodes as it was.
C7_EmptyNode ==
  [][(pc = "centroid" /\ node_population[i + 1] = 0) =>
       /\ pc' \in {"centroid", "delta"}
       /\ node_xy'[i + 1] = <<0, 0, 1>>
       /\ Len(node_xy') = n_nodes
       /\ n_nodes' = n_nodes]_vars

\* A node left empty in round 1 and empty again in round 2: no data point
\* lies at the origin, so only an empty node can have been put there.
C7_Witness ==
  /\ pc = "judge"
  /\ rounds = 2
  /\ \A k \in 1..n_points : xy[k] # <<0, 0>>
  /\ \E k \in 1..n_nodes :
       /\ init_nodes[k] # <<0, 0, 1>>
       /\ orig_node_xy[k] = <<0, 0, 1>>
       /\ node_population[k] = 0
       /\ node_xy[k] = <<0, 0, 1>>

\* C8: a call with no nodes, no points, or a weights array whose length is
\* not the number of points ends in an error before its first round
\* completes and returns nothing.
C8_ConfigurationErrors ==
  (n_nodes = 0 \/ n_points = 0 \/ Len(w) # n_points) =>
    /\ pc \notin {"judge", "done"}
    /\ rounds <= 1

\* C9: a call returns converged = true exactly when no node moved in its
\* last round, whether or not the budget is spent in that round.
C9_ConvergenceDecision ==
  pc = "done" =>
    /\ converged <=> Unmoved
    /\ converged <=> delta = <<0, 1>>

C9_Witness ==
  /\ pc = "done"
  /\ converged
  /\ Unmoved
  /\ n_iters > max_iters

\* C10: on every return, idx maps each point to a node nearest to it among
\* the returned node_xy.
C10_NearestLabelling ==
  pc = "done" =>
    \A k \in 1..n_points : idx[k] \in NearestSet(xy[k], node_xy)

====
